---------------------------- MODULE Spec2Model ----------------------------
(***************************************************************************)
(* A model of the json_editor REPL (src/main.py, src/data_navigator.py,    *)
(* src/actions.py, src/file_utils.py).                                     *)
(*                                                                         *)
(* A document is a tagged value [k |-> kind, v |-> payload]:               *)
(*   "none"            JSON null / Python None                             *)
(*   "bool"  v: BOOLEAN                                                    *)
(*   "int"   v: Int                                                        *)
(*   "str"   v: STRING                                                     *)
(*   "seq"   v: sequence of documents          (Python list)               *)
(*   "map"   v: sequence of <<key, document>>  (Python dict, in insertion  *)
(*              order, keys unique)                                        *)
(* Floats are not modelled.  The working address dn.path is a sequence of  *)
(* segments (strings); Path(".") is the empty sequence.                    *)
(***************************************************************************)
EXTENDS Integers, Sequences, FiniteSets, TLC

VARIABLES
    data,       \* dn.data: the current document
    path,       \* dn.path: the working address
    literal,    \* dn.literal
    filename,   \* dn.filename
    file,       \* the document stored in the file named dn.filename
    pc,         \* "awaiting" (input() in run), "exited" (sys.exit), "crashed";
                \* "main" before main() has run, "done" once it has returned
    last,       \* the command line handled last: [cmd, args, walk]
    scen        \* progress through the end-to-end scenario of spec section 8

vars == <<data, path, literal, filename, file, pc, last, scen>>

-----------------------------------------------------------------------------
(* Bounds of the model.                                                    *)

\* longest string a document may hold
MaxStr == 8
\* largest integer a document may hold
MaxInt == 12
\* longest list a document may hold
MaxLen == 3
\* deepest nesting of containers in a document
MaxDepth == 2

-----------------------------------------------------------------------------
(* Document constructors.                                                  *)

None == [k |-> "none"]
B(b) == [k |-> "bool", v |-> b]
I(n) == [k |-> "int", v |-> n]
S(s) == [k |-> "str", v |-> s]
L(q) == [k |-> "seq", v |-> q]
M(q) == [k |-> "map", v |-> q]

\* what a failed resolution raises
NavigationError == [k |-> "NavigationError"]

IsMap(d) == d.k = "map"
IsSeq(d) == d.k = "seq"

Keys(d) == {d.v[n][1] : n \in DOMAIN d.v}
HasKey(d, key) == key \in Keys(d)
IndexOfKey(d, key) == CHOOSE n \in DOMAIN d.v : d.v[n][1] = key
ValueOf(d, key) == d.v[IndexOfKey(d, key)][2]

-----------------------------------------------------------------------------
(* Python's str methods and conversions on the strings of the model.       *)

DigitChars == <<"0", "1", "2", "3", "4", "5", "6", "7", "8", "9">>

CharAt(s, n) == SubSeq(s, n, n)

IsDigitChar(c) == \E n \in DOMAIN DigitChars : DigitChars[n] = c

DigitValue(c) == (CHOOSE n \in DOMAIN DigitChars : DigitChars[n] = c) - 1

\* str.isdigit()
isdigit(s) == Len(s) > 0 /\ \A n \in 1..Len(s) : IsDigitChar(CharAt(s, n))

\* int(s) for a string of digits
RECURSIVE int(_)
int(s) ==
    IF Len(s) = 0 THEN 0
    ELSE 10 * int(SubSeq(s, 1, Len(s) - 1)) + DigitValue(CharAt(s, Len(s)))

\* str(n) for an integer n
RECURSIVE IntStr(_)
IntStr(n) ==
    IF n < 0 THEN "-" \o IntStr(-n)
    ELSE IF n < 10 THEN DigitChars[n + 1]
    ELSE IntStr(n \div 10) \o DigitChars[(n % 10) + 1]

\* " ".join(args)
RECURSIVE Join(_)
Join(args) ==
    IF Len(args) = 0 THEN ""
    ELSE IF Len(args) = 1 THEN args[1]
    ELSE args[1] \o " " \o Join(Tail(args))


-----------------------------------------------------------------------------
(* Textual forms of a document.                                            *)

\* repr(d): Python's notation, which str() uses inside containers
RECURSIVE PyRepr(_)
RECURSIVE PyReprItems(_)
RECURSIVE PyReprEntries(_)
PyRepr(d) ==
    CASE d.k = "none" -> "None"
      [] d.k = "bool" -> IF d.v THEN "True" ELSE "False"
      [] d.k = "int"  -> IntStr(d.v)
      [] d.k = "str"  -> "'" \o d.v \o "'"
      [] d.k = "seq"  -> "[" \o PyReprItems(d.v) \o "]"
      [] d.k = "map"  -> "{" \o PyReprEntries(d.v) \o "}"
PyReprItems(q) ==
    IF Len(q) = 0 THEN ""
    ELSE IF Len(q) = 1 THEN PyRepr(q[1])
    ELSE PyRepr(q[1]) \o ", " \o PyReprItems(Tail(q))
PyReprEntries(q) ==
    IF Len(q) = 0 THEN ""
    ELSE IF Len(q) = 1 THEN "'" \o q[1][1] \o "': " \o PyRepr(q[1][2])
    ELSE "'" \o q[1][1] \o "': " \o PyRepr(q[1][2]) \o ", "
         \o PyReprEntries(Tail(q))

\* str(d)
PyStr(d) == IF d.k = "str" THEN d.v ELSE PyRepr(d)

\* the JSON notation of a document, as typed on the command line
RECURSIVE JsonText(_)
RECURSIVE JsonItems(_)
RECURSIVE JsonEntries(_)
JsonText(d) ==
    CASE d.k = "none" -> "null"
      [] d.k = "bool" -> IF d.v THEN "true" ELSE "false"
      [] d.k = "int"  -> IntStr(d.v)
      [] d.k = "str"  -> "\"" \o d.v \o "\""
      [] d.k = "seq"  -> "[" \o JsonItems(d.v) \o "]"
      [] d.k = "map"  -> "{" \o JsonEntries(d.v) \o "}"
JsonItems(q) ==
    IF Len(q) = 0 THEN ""
    ELSE IF Len(q) = 1 THEN JsonText(q[1])
    ELSE JsonText(q[1]) \o ", " \o JsonItems(Tail(q))
JsonEntries(q) ==
    IF Len(q) = 0 THEN ""
    ELSE IF Len(q) = 1 THEN "\"" \o q[1][1] \o "\": " \o JsonText(q[1][2])
    ELSE "\"" \o q[1][1] \o "\": " \o JsonText(q[1][2]) \o ", "
         \o JsonEntries(Tail(q))

-----------------------------------------------------------------------------
(* data_utils: smart_cast, get_data_by_path, change_data_by_path.          *)

\* the structured literals the model's command lines and documents can spell
StructuredLiterals ==
    { M(<< <<"z", I(9)>> >>),
      M(<< <<"b", I(2)>> >>),
      M(<< <<"a", I(7)>> >>),
      L(<< I(3) >>),
      L(<< I(1), I(2) >>),
      L(<< I(1), I(2), I(3) >>) }

TrueTexts == {"true", "True", "TRUE"}
FalseTexts == {"false", "False", "FALSE"}

\* smart_cast(raw): boolean literal, integer literal, structured literal,
\* else the string itself; a value that is not a string is returned as it is
smart_cast(d) ==
    IF d.k # "str" THEN d
    ELSE IF d.v \in TrueTexts THEN B(TRUE)
    ELSE IF d.v \in FalseTexts THEN B(FALSE)
    ELSE IF isdigit(d.v) THEN I(int(d.v))
    ELSE IF Len(d.v) > 1 /\ CharAt(d.v, 1) = "-" /\ isdigit(SubSeq(d.v, 2, Len(d.v)))
         THEN I(0 - int(SubSeq(d.v, 2, Len(d.v))))
    ELSE IF \E x \in StructuredLiterals : JsonText(x) = d.v
         THEN CHOOSE x \in StructuredLiterals : JsonText(x) = d.v
    ELSE d

\* whether segment seg addresses a child of node d
Resolvable(d, seg) ==
    \/ IsMap(d) /\ HasKey(d, seg)
    \/ IsSeq(d) /\ isdigit(seg) /\ int(seg) < Len(d.v)

\* the child of node d that an (already resolvable) segment addresses
Child(d, seg) == IF IsMap(d) THEN ValueOf(d, seg) ELSE d.v[int(seg) + 1]

\* resolve(document, address)
RECURSIVE get_data_by_path(_, _)
get_data_by_path(d, addr) ==
    IF Len(addr) = 0 THEN d
    ELSE IF Resolvable(d, Head(addr))
         THEN get_data_by_path(Child(d, Head(addr)), Tail(addr))
    ELSE NavigationError

\* replace(document, address, new_value)
RECURSIVE change_data_by_path(_, _, _)
change_data_by_path(d, addr, value) ==
    IF Len(addr) = 0 THEN value
    ELSE IF ~Resolvable(d, Head(addr)) THEN NavigationError
    ELSE LET sub == change_data_by_path(Child(d, Head(addr)), Tail(addr), value)
             n   == IF IsMap(d) THEN IndexOfKey(d, Head(addr))
                    ELSE int(Head(addr)) + 1
         IN  IF sub = NavigationError THEN NavigationError
             ELSE IF IsMap(d)
                  THEN M([d.v EXCEPT ![n] = <<Head(addr), sub>>])
                  ELSE L([d.v EXCEPT ![n] = sub])

\* the address resolves to a node of the document
Valid(d, addr) == get_data_by_path(d, addr) # NavigationError

-----------------------------------------------------------------------------
(* Python's == on documents: True == 1, dicts compare without order.       *)

IsNum(d) == d.k \in {"int", "bool"}
NumVal(d) == IF d.k = "bool" THEN (IF d.v THEN 1 ELSE 0) ELSE d.v

RECURSIVE PyEq(_, _)
PyEq(a, b) ==
    IF IsNum(a) /\ IsNum(b) THEN NumVal(a) = NumVal(b)
    ELSE IF a.k # b.k THEN FALSE
    ELSE IF a.k = "seq"
         THEN Len(a.v) = Len(b.v) /\ \A n \in DOMAIN a.v : PyEq(a.v[n], b.v[n])
    ELSE IF a.k = "map"
         THEN Keys(a) = Keys(b)
              /\ \A key \in Keys(a) : PyEq(ValueOf(a, key), ValueOf(b, key))
    ELSE a = b

-----------------------------------------------------------------------------
(* The session: the DataNavigator object, the file it was loaded from and  *)
(* the position of the process.                                            *)

Session ==
    [data |-> data, path |-> path, literal |-> literal,
     filename |-> filename, file |-> file, pc |-> pc]

\* dn.path.parent
Parent(addr) == IF Len(addr) = 0 THEN addr ELSE SubSeq(addr, 1, Len(addr) - 1)

\* an exception no handler catches leaves run() and ends the process
Crash(s) == [s EXCEPT !.pc = "crashed"]

\* DataNavigator.cur_data (getter)
cur_data(s) == get_data_by_path(s.data, s.path)

\* cur_data (setter) writing at the parent of the working address
cur_data_set_parent(s, value) ==
    LET v == IF s.literal THEN smart_cast(value) ELSE value
    IN  [s EXCEPT !.data = change_data_by_path(s.data, Parent(s.path), v)]

\* cur_data (setter) assigning the value to dn.data itself
cur_data_set_root(s, value) ==
    LET v == IF s.literal THEN smart_cast(value) ELSE value
    IN  [s EXCEPT !.data = v]

\* cur_data (setter) that never casts
cur_data_set_nocast(s, value) ==
    [s EXCEPT !.data = change_data_by_path(s.data, s.path, value)]

\* DataNavigator.cur_data (setter), with s.path a valid address
cur_data_set(s, value) ==
    LET v == IF s.literal THEN smart_cast(value) ELSE value
    IN  [s EXCEPT !.data = change_data_by_path(s.data, s.path, v)]

\* the address a path argument names: "current" is the working address,
\* anything else a segment below it
TargetAddr(s, p) == IF p = "current" THEN s.path ELSE Append(s.path, p)

\* dn.get_data(path)
get_data(s, p) ==
    IF p = "current" THEN cur_data(s)
    ELSE get_data_by_path(s.data, TargetAddr(s, p))

\* dn.change_data(value, path, force_type)
change_data(s, value, p, force_type) ==
    IF get_data(s, p) = NavigationError THEN Crash(s)
    ELSE IF p = "current" /\ ~force_type THEN cur_data_set(s, value)
    ELSE [s EXCEPT !.data =
             change_data_by_path(s.data, TargetAddr(s, p), smart_cast(value))]

\* a container reached through dn.get_data("current") and changed in place
InPlace(s, node) ==
    [s EXCEPT !.data = change_data_by_path(s.data, s.path, node)]

\* pprint(dn.get_data("current")) at the end of a handler
Show(s) == IF s.pc = "awaiting" /\ cur_data(s) = NavigationError THEN Crash(s) ELSE s

-----------------------------------------------------------------------------
(* The handlers of src/actions.py.  Each maps the session and the argument *)
(* tokens to the session the handler leaves behind.                        *)

\* dict.update that keeps the value of a key already present
RECURSIVE dict_update_keep(_, _)
dict_update_keep(q, new) ==
    IF Len(new) = 0 THEN q
    ELSE IF \E n \in DOMAIN q : q[n][1] = Head(new)[1]
         THEN dict_update_keep(q, Tail(new))
    ELSE dict_update_keep(Append(q, Head(new)), Tail(new))

\* dict.update: a key already present keeps its place and takes the new value
UpdateEntry(q, e) ==
    IF \E n \in DOMAIN q : q[n][1] = e[1]
    THEN [q EXCEPT ![CHOOSE n \in DOMAIN q : q[n][1] = e[1]] = e]
    ELSE Append(q, e)

RECURSIVE dict_update(_, _)
dict_update(q, new) ==
    IF Len(new) = 0 THEN q
    ELSE dict_update(UpdateEntry(q, Head(new)), Tail(new))

\* list.extend
list_extend(q, new) == q \o new

\* isinstance(d, (int, str, float)): bool is a subclass of int
IsIntStrFloat(d) == d.k \in {"int", "str", "bool"}

\* the third case of append_data: f"{cur_data + new_data}"
scalar_sum(cur, new) ==
    IF cur.k = "str" \/ new.k = "str"
    THEN S(PyStr(cur) \o PyStr(new))
    ELSE S(IntStr(NumVal(cur) + NumVal(new)))

\* append
append_data(s, args) ==
    LET new == smart_cast(S(Join(args)))
        cur == get_data(s, "current")
    IN  IF cur = NavigationError THEN Crash(s)
        ELSE IF IsMap(new) /\ IsMap(cur)
             THEN InPlace(s, M(dict_update(cur.v, new.v)))
        ELSE IF IsSeq(new) /\ IsSeq(cur)
             THEN InPlace(s, L(list_extend(cur.v, new.v)))
        ELSE IF IsIntStrFloat(new) /\ IsIntStrFloat(cur)
             THEN change_data(s, scalar_sum(cur, new), "current", FALSE)
        ELSE s

\* cast
cast_value(s, args) ==
    IF Len(args) # 1 THEN s
    ELSE LET p == IF args[1] = "." THEN "current" ELSE args[1]
             d == get_data(s, p)
         IN  IF d = NavigationError THEN Crash(s)
             ELSE change_data(s, smart_cast(d), p, TRUE)

\* uncast
uncast_value(s, args) ==
    IF Len(args) # 1 THEN s
    ELSE LET p == IF args[1] = "." THEN "current" ELSE args[1]
             d == get_data(s, p)
         IN  IF d = NavigationError THEN Crash(s)
             ELSE change_data(s, S(PyStr(d)), p, TRUE)

\* dict.pop(key) on the entries of a dict that has the key
RemoveKey(q, key) == SelectSeq(q, LAMBDA e : e[1] # key)

\* del-key: list.pop(i) with a str raises TypeError, which is not caught
RECURSIVE del_key(_, _)
del_key(s, indexes) ==
    LET cur == get_data(s, "current")
    IN  IF cur = NavigationError THEN Crash(s)
        ELSE IF Len(indexes) = 0 THEN s
        ELSE IF IsMap(cur)
             THEN IF HasKey(cur, Head(indexes))
                  THEN del_key(InPlace(s, M(RemoveKey(cur.v, Head(indexes)))),
                               Tail(indexes))
                  ELSE del_key(s, Tail(indexes))
        ELSE IF IsSeq(cur) THEN Crash(s)
        ELSE del_key(s, Tail(indexes))

\* list.remove(x): drops the first element equal to x
RECURSIVE RemoveFirst(_, _)
RemoveFirst(q, x) ==
    IF Len(q) = 0 THEN q
    ELSE IF PyEq(Head(q), x) THEN Tail(q)
    ELSE <<Head(q)>> \o RemoveFirst(Tail(q), x)

\* the loop of del-val; cur is the object dn.get_data("current") returned
\* before the loop: change_data puts a new object into the document, and the
\* later iterations still filter the old one
RECURSIVE del_val_loop(_, _, _)
del_val_loop(s, cur, values) ==
    IF Len(values) = 0 \/ s.pc # "awaiting" THEN s
    ELSE LET i == IF s.literal THEN smart_cast(S(Head(values))) ELSE S(Head(values))
         IN  IF IsMap(cur)
             THEN del_val_loop(
                      change_data(s, M(SelectSeq(cur.v, LAMBDA e : ~PyEq(e[2], i))),
                                  "current", TRUE),
                      cur, Tail(values))
             ELSE IF IsSeq(cur)
             THEN IF \E n \in DOMAIN cur.v : PyEq(cur.v[n], i)
                  THEN del_val_loop(change_data(s, None, "current", TRUE),
                                    L(RemoveFirst(cur.v, i)), Tail(values))
                  ELSE Crash(s)
             ELSE del_val_loop(s, cur, Tail(values))

\* del-val that keeps the entries equal to the first value and drops the rest
del_val_inverted(s, values) ==
    LET cur == get_data(s, "current")
        i   == IF s.literal THEN smart_cast(S(Head(values))) ELSE S(Head(values))
    IN  IF cur = NavigationError THEN Crash(s)
        ELSE IF IsMap(cur) /\ Len(values) > 0
             THEN change_data(s, M(SelectSeq(cur.v, LAMBDA e : PyEq(e[2], i))),
                              "current", TRUE)
        ELSE s

\* del-val
del_val(s, values) ==
    LET cur == get_data(s, "current")
    IN  IF cur = NavigationError THEN Crash(s)
        ELSE del_val_loop(s, cur, values)

\* exit, quit
exit_repl(s) == [s EXCEPT !.pc = "exited"]

\* is_index of move
is_index(index, d) ==
    IF IsMap(d) THEN HasKey(d, index)
    ELSE IF IsSeq(d) THEN isdigit(index) /\ int(index) < Len(d.v)
    ELSE FALSE

\* the pieces of one token between its "/" separators
RECURSIVE SplitSlash(_, _)
SplitSlash(tok, piece) ==
    IF Len(tok) = 0 THEN <<piece>>
    ELSE IF CharAt(tok, 1) = "/"
         THEN <<piece>> \o SplitSlash(SubSeq(tok, 2, Len(tok)), "")
    ELSE SplitSlash(SubSeq(tok, 2, Len(tok)), piece \o CharAt(tok, 1))

\* Path(*indexes).parts: the tokens are joined and split at "/", empty and
\* "." pieces are dropped, and a token with a leading "/" discards the
\* tokens before it and contributes the part "/"
RECURSIVE PartsFrom(_, _)
PartsFrom(indexes, acc) ==
    IF Len(indexes) = 0 THEN acc
    ELSE LET tok == Head(indexes)
             pieces == SelectSeq(SplitSlash(tok, ""),
                                 LAMBDA piece : piece \notin {"", "."})
         IN  IF Len(tok) > 0 /\ CharAt(tok, 1) = "/"
             THEN PartsFrom(Tail(indexes), <<"/">> \o pieces)
             ELSE PartsFrom(Tail(indexes), acc \o pieces)

Parts(indexes) == PartsFrom(indexes, <<>>)

\* an iteration of the loop of move that descends without asking is_index
move_step_unchecked(s, i) ==
    IF i = ".."
    THEN IF Len(s.path) # 0 THEN [s EXCEPT !.path = Parent(s.path)] ELSE s
    ELSE IF i = "\\" THEN [s EXCEPT !.path = <<>>]
    ELSE [s EXCEPT !.path = Append(s.path, i)]

\* one iteration of the loop of move
move_step(s, i) ==
    IF i = ".."
    THEN IF Len(s.path) # 0 THEN [s EXCEPT !.path = Parent(s.path)] ELSE s
    ELSE IF i = "\\" THEN [s EXCEPT !.path = <<>>]
    ELSE IF get_data(s, "current") = NavigationError THEN Crash(s)
    ELSE IF is_index(i, get_data(s, "current"))
         THEN [s EXCEPT !.path = Append(s.path, i)]
    ELSE s

RECURSIVE move_loop(_, _)
move_loop(s, parts) ==
    IF Len(parts) = 0 \/ s.pc # "awaiting" THEN s
    ELSE move_loop(move_step(s, Head(parts)), Tail(parts))

\* cd with every segment validated against the node the command started at
RECURSIVE move_loop_start(_, _, _)
move_loop_start(s, parts, node) ==
    IF Len(parts) = 0 THEN s
    ELSE IF Head(parts) = ".."
         THEN move_loop_start([s EXCEPT !.path = Parent(s.path)], Tail(parts), node)
    ELSE IF Head(parts) = "\\"
         THEN move_loop_start([s EXCEPT !.path = <<>>], Tail(parts), node)
    ELSE IF is_index(Head(parts), node)
         THEN move_loop_start([s EXCEPT !.path = Append(s.path, Head(parts))],
                              Tail(parts), node)
    ELSE move_loop_start(s, Tail(parts), node)

move_from_start(s, indexes) ==
    Show(move_loop_start(s, Parts(indexes), get_data(s, "current")))

\* cd
move(s, indexes) == Show(move_loop(s, Parts(indexes)))

\* ls, list
list_data(s) == Show(s)

\* restart that shows the current node without reloading the file
restart_unloaded(s) == Show(s)

\* restart
restart(s) == Show([s EXCEPT !.data = s.file])

\* save: save_file(dn.filename, dn.data)
save(s) == [s EXCEPT !.file = s.data]

\* DataNavigator.public
Public(s) ==
    [data |-> s.data, filename |-> S(s.filename),
     literal |-> B(s.literal), path |-> S("")]

\* flag_setter that stores the opposite value
flag_setter_inverted(s, flag, value) ==
    IF flag \in DOMAIN Public(s) /\ Public(s)[flag].k = "bool"
    THEN IF flag = "literal" THEN [s EXCEPT !.literal = ~value]
         ELSE [s EXCEPT !.data = B(~value)]
    ELSE s

\* DataNavigator.flag_setter
flag_setter(s, flag, value) ==
    IF flag \in DOMAIN Public(s) /\ Public(s)[flag].k = "bool"
    THEN IF flag = "literal" THEN [s EXCEPT !.literal = value]
         ELSE [s EXCEPT !.data = B(value)]
    ELSE s

OnTexts == {"on", "On", "ON"}
OffTexts == {"off", "Off", "OFF"}

\* flag: args[1] is read before the number of arguments is looked at
set_flag(s, args) ==
    IF Len(args) < 2 THEN Crash(s)
    ELSE IF Len(args) = 2 /\ args[2] \in OnTexts \cup OffTexts
         THEN flag_setter(s, args[1], args[2] \in OnTexts)
    ELSE s

\* set that asks change_data to force the type
set_value_forced(s, new_value) ==
    Show(change_data(s, S(Join(new_value)), "current", TRUE))

\* set
set_value(s, new_value) == Show(change_data(s, S(Join(new_value)), "current", FALSE))

\* the names of the command table
Commands ==
    {"append", "cast", "cls", "clear", "del-key", "del-val", "exit", "quit",
     "cd", "ls", "list", "print", "restart", "!", "save", "flag", "set", "+l",
     "uncast"}

\* commands[command](dn, args), with +l (temporary_literal) calling back into
\* the table
RECURSIVE Call(_, _, _)
RECURSIVE temporary_literal(_, _)
\* +l that leaves literal mode as the wrapped command left it
temporary_literal_kept(s, args) ==
    IF Len(args) > 0 /\ args[1] \in Commands
    THEN Call(args[1], set_flag(s, <<"literal", "on">>), Tail(args))
    ELSE s

Call(command, s, args) ==
    CASE command = "append"  -> append_data(s, args)
      [] command = "cast"    -> cast_value(s, args)
      [] command = "del-key" -> del_key(s, args)
      [] command = "del-val" -> del_val(s, args)
      [] command \in {"exit", "quit"} -> exit_repl(s)
      [] command = "cd"      -> move(s, args)
      [] command \in {"ls", "list"} -> list_data(s)
      [] command = "restart" -> restart(s)
      [] command = "save"    -> save(s)
      [] command = "flag"    -> set_flag(s, args)
      [] command = "set"     -> set_value(s, args)
      [] command = "+l"      -> temporary_literal(s, args)
      [] command = "uncast"  -> uncast_value(s, args)
      [] OTHER               -> s
temporary_literal(s, args) ==
    IF Len(args) > 0 /\ args[1] \in Commands
    THEN [Call(args[1], set_flag(s, <<"literal", "on">>), Tail(args))
             EXCEPT !.literal = s.literal]
    ELSE s

-----------------------------------------------------------------------------
(* The documents of the model and the bounds on them.                      *)

\* {"x": {"y": 1}}
DocXY == M(<< <<"x", M(<< <<"y", I(1)>> >>)>> >>)
\* {"a": 1}
DocA  == M(<< <<"a", I(1)>> >>)
\* [1, 2]
Doc12 == L(<< I(1), I(2) >>)

Max(a, b) == IF a > b THEN a ELSE b

RECURSIVE Depth(_)
RECURSIVE MaxDepthOf(_)
Depth(d) ==
    IF d.k = "seq" THEN 1 + MaxDepthOf(d.v)
    ELSE IF d.k = "map" THEN 1 + MaxDepthOf([n \in DOMAIN d.v |-> d.v[n][2]])
    ELSE 0
MaxDepthOf(q) ==
    IF Len(q) = 0 THEN 0 ELSE Max(Depth(Head(q)), MaxDepthOf(Tail(q)))

\* the document stays within the bounds of the model
RECURSIVE Bounded(_)
Bounded(d) ==
    CASE d.k = "int" -> d.v <= MaxInt /\ 0 - d.v <= MaxInt
      [] d.k = "str" -> Len(d.v) <= MaxStr
      [] d.k = "seq" -> /\ Len(d.v) <= MaxLen
                        /\ Depth(d) <= MaxDepth
                        /\ \A n \in DOMAIN d.v : Bounded(d.v[n])
      [] d.k = "map" -> /\ Depth(d) <= MaxDepth
                        /\ \A n \in DOMAIN d.v : Bounded(d.v[n][2])
      [] OTHER -> TRUE

\* the command lines of the end-to-end scenario, in order
Scenario ==
    << [cmd |-> "cd", args |-> <<"x">>],
       [cmd |-> "cd", args |-> <<"y">>],
       [cmd |-> "set", args |-> <<"5">>],
       [cmd |-> "cd", args |-> <<"..">>],
       [cmd |-> "append", args |-> <<"{\"z\":", "9}">>] >>

\* how far the session is into the scenario once the line is handled
ScenAfter(line) ==
    IF scen > 0 /\ scen < Len(Scenario) /\ line = Scenario[scen + 1] THEN scen + 1
    ELSE IF line = Scenario[1] /\ data = DocXY /\ Len(path) = 0 THEN 1
    ELSE 0

-----------------------------------------------------------------------------
(* The state machine: DataNavigator.run.                                   *)

\* the session main() constructs for a source file holding one of docs
Start(docs) ==
    /\ file \in docs
    /\ data = file
    /\ path = <<>>
    /\ literal \in BOOLEAN
    /\ filename = "lipsum.json"
    /\ pc = "awaiting"
    /\ last = [cmd |-> "(start)", args |-> <<>>]
    /\ scen = 0

\* the session after the handler of a command line has run
After(command, args) ==
    IF command \in Commands THEN Call(command, Session, args) ELSE Session

\* the handler of a command line runs and the session becomes what it leaves
Handle(command, args) ==
    /\ \E r \in {After(command, args)} :
           /\ Bounded(r.data)
           /\ data' = r.data
           /\ path' = r.path
           /\ literal' = r.literal
           /\ filename' = r.filename
           /\ file' = r.file
           /\ pc' = r.pc
    /\ last' = [cmd |-> command, args |-> args]
    /\ scen' = ScenAfter([cmd |-> command, args |-> args])

\* One turn of the loop of run per action: input() returns the line, the
\* command is looked up in the table and its handler is called.
Cd(lines) ==
    \E args \in lines :
        /\ pc = "awaiting"
        /\ Handle("cd", args)

Set(lines) ==
    \E args \in lines :
        /\ pc = "awaiting"
        /\ Handle("set", args)

AppendCmd(lines) ==
    \E args \in lines :
        /\ pc = "awaiting"
        /\ Handle("append", args)

DelKey(lines) ==
    \E args \in lines :
        /\ pc = "awaiting"
        /\ Handle("del-key", args)

DelVal(lines) ==
    \E args \in lines :
        /\ pc = "awaiting"
        /\ Handle("del-val", args)

Cast(lines) ==
    \E args \in lines :
        /\ pc = "awaiting"
        /\ Handle("cast", args)

Uncast(lines) ==
    \E args \in lines :
        /\ pc = "awaiting"
        /\ Handle("uncast", args)

Flag(lines) ==
    \E args \in lines :
        /\ pc = "awaiting"
        /\ Handle("flag", args)

TempLiteral(lines) ==
    \E args \in lines :
        /\ pc = "awaiting"
        /\ Handle("+l", args)

Save ==
    /\ pc = "awaiting"
    /\ Handle("save", <<>>)

Restart ==
    /\ pc = "awaiting"
    /\ Handle("restart", <<>>)

List ==
    \E c \in {"ls", "list"} :
        /\ pc = "awaiting"
        /\ Handle(c, <<>>)

Exit ==
    \E c \in {"exit", "quit"} :
        /\ pc = "awaiting"
        /\ Handle(c, <<>>)

\* a first token that is not in the command table
Invalid ==
    \E c \in {"", "foo"} :
        /\ pc = "awaiting"
        /\ Handle(c, <<>>)

-----------------------------------------------------------------------------
(* Spec: a session over every command of the table.                        *)

CdArgs == { <<"x">>, <<"z">>, <<"..">> }
SetArgs == { <<"5">> }
AppendArgs == { <<"{\"z\":", "9}">> }
DelKeyArgs == { <<"y">>, <<"q">> }
DelValArgs == { <<"1">> }
CastArgs == { <<".">> }
FlagArgs == { <<"literal">>, <<"literal", "on">>, <<"literal", "OFF">> }
TempLiteralArgs == { <<>>, <<"set", "5">> }

Init == Start({DocXY})

Next ==
    \/ Cd(CdArgs)
    \/ Set(SetArgs)
    \/ AppendCmd(AppendArgs)
    \/ DelKey(DelKeyArgs)
    \/ DelVal(DelValArgs)
    \/ Cast(CastArgs)
    \/ Uncast(CastArgs)
    \/ Flag(FlagArgs)
    \/ TempLiteral(TempLiteralArgs)
    \/ Save
    \/ Restart
    \/ List
    \/ Exit
    \/ Invalid

Spec == Init /\ [][Next]_vars

-----------------------------------------------------------------------------
(* SpecEdit: sessions that navigate and write (set, append, cast, uncast). *)

EditCdArgs == { <<"x">>, <<"y">>, <<"0">>, <<"..">> }
EditSetArgs == { <<"5">> }
EditAppendArgs == { <<"2">>, <<"{\"z\":", "9}">> }
EditCastArgs == { <<".">>, <<"y">> }

\* [{"y": 1}, 2]
DocLY == L(<< M(<< <<"y", I(1)>> >>), I(2) >>)

InitEdit == Start({DocXY, DocLY})

NextEdit ==
    \/ Cd(EditCdArgs)
    \/ Set(EditSetArgs)
    \/ AppendCmd(EditAppendArgs)
    \/ Cast(EditCastArgs)
    \/ Uncast(EditCastArgs)

SpecEdit == InitEdit /\ [][NextEdit]_vars

-----------------------------------------------------------------------------
(* SpecAppend: sessions that append to scalars, dicts and lists.           *)

AppendCdArgs == { <<"a">>, <<"..">> }
AppendSetArgs == { <<"1">> }
AppendAppendArgs ==
    { <<"2">>, <<"true">>, <<"[3]">>, <<"{\"b\":", "2}">>, <<"{\"a\":", "7}">> }

InitAppend == Start({DocA, Doc12})

NextAppend ==
    \/ Cd(AppendCdArgs)
    \/ Set(AppendSetArgs)
    \/ AppendCmd(AppendAppendArgs)

SpecAppend == InitAppend /\ [][NextAppend]_vars

-----------------------------------------------------------------------------
(* SpecNav: sessions that navigate, with a few writes to vary the document. *)

NavCdArgs ==
    { <<>>, <<"x">>, <<"y">>, <<"z">>, <<"0">>, <<"2">>, <<"..">>, <<"\\">>,
      <<"q">>, <<"x", "y">>, <<"y", "x">>, <<"q", "x">>, <<"x", "q", "y">>,
      <<"x", "z", "..", "y">>, <<".", "x">>, <<"x/y">>, <<"x/q/../y">>,
      <<"/x">> }
NavSetArgs == { <<"5">>, <<"{\"z\":", "9}">> }
NavAppendArgs == { <<"[3]">> }

InitNav == Start({DocXY, Doc12})

NextNav ==
    \/ Cd(NavCdArgs)
    \/ Set(NavSetArgs)
    \/ AppendCmd(NavAppendArgs)

SpecNav == InitNav /\ [][NextNav]_vars

-----------------------------------------------------------------------------
(* Helpers of the properties below.                                        *)

\* every address that resolves against document d
RECURSIVE Addresses(_)
Addresses(d) ==
    {<<>>} \cup
    (IF IsMap(d)
     THEN UNION { { <<d.v[n][1]>> \o a : a \in Addresses(d.v[n][2]) } : n \in DOMAIN d.v }
     ELSE IF IsSeq(d)
     THEN UNION { { <<IntStr(n - 1)>> \o a : a \in Addresses(d.v[n]) } : n \in DOMAIN d.v }
     ELSE {})

IsPrefix(a, b) == Len(a) <= Len(b) /\ SubSeq(b, 1, Len(a)) = a

\* the node at the working address
CurrentNode == get_data_by_path(data, path)

-----------------------------------------------------------------------------
(* C1.  In every state a session reaches from a valid working address, the  *)
(* working address resolves against the current document to an existing     *)
(* node.  The code breaks this: restart replaces the document by the file's *)
(* and keeps dn.path, which the file's document need not hold.              *)
C1_WorkingAddressNeverDangles == Valid(data, path)

(* C4.  The loop of run ends only on an explicit exit or quit: after any    *)
(* other line the interpreter is awaiting the next one.  The code breaks     *)
(* this: an exception a handler does not catch (flag with fewer than two     *)
(* arguments reads args[1]) leaves run.                                      *)
C4_LoopEndsOnlyOnExit ==
    /\ pc \in {"awaiting", "exited"}
    /\ pc = "exited" => last.cmd \in {"exit", "quit"}

-----------------------------------------------------------------------------
(* C2.  Round trip of a write and a read: for every address p of the        *)
(* current document and every value v, resolving p in the document with v   *)
(* put at p gives v; and right after set the handler is back in the loop    *)
(* and the node at the working address is the value set wrote (the typed    *)
(* text, smart-cast in literal mode).                                       *)
RoundTripValues ==
    { None, B(TRUE), I(5), S("5"), M(<< <<"z", I(9)>> >>), L(<< I(3) >>) }

WrittenBySet ==
    IF literal THEN smart_cast(S(Join(last.args))) ELSE S(Join(last.args))

C2_RoundTrip ==
    /\ \A p \in Addresses(data) : \A v \in RoundTripValues :
           get_data_by_path(change_data_by_path(data, p, v), p) = v
    /\ last.cmd = "set" => pc = "awaiting" /\ CurrentNode = WrittenBySet

C2_Witness ==
    /\ last.cmd = "set"
    /\ path = <<"x", "y">>
    /\ literal
    /\ CurrentNode = I(5)

(* C3.  A write at address p (set, cast, uncast, append onto a scalar)      *)
(* changes only the subtree at p: an address of the document that is        *)
(* neither a prefix nor an extension of p resolves to the same value after   *)
(* the write, and every proper ancestor of p keeps its kind and its keys     *)
(* (its length, for a list).                                                 *)
IsWrite(cmd, args) ==
    \/ cmd = "set"
    \/ cmd \in {"cast", "uncast"} /\ Len(args) = 1
    \/ cmd = "append" /\ ~IsMap(CurrentNode) /\ ~IsSeq(CurrentNode)

WriteAddr(cmd, args) ==
    IF cmd \in {"cast", "uncast"} /\ args[1] # "." THEN Append(path, args[1])
    ELSE path

KeysInOrder(d) == [n \in DOMAIN d.v |-> d.v[n][1]]

FrameAt(p, before, after) ==
    /\ \A q \in Addresses(before) :
           ~IsPrefix(p, q) /\ ~IsPrefix(q, p) =>
               get_data_by_path(after, q) = get_data_by_path(before, q)
    /\ \A n \in 0..(Len(p) - 1) :
           LET old == get_data_by_path(before, SubSeq(p, 1, n))
               new == get_data_by_path(after, SubSeq(p, 1, n))
           IN  /\ new.k = old.k
               /\ IsMap(old) => KeysInOrder(new) = KeysInOrder(old)
               /\ IsSeq(old) => Len(new.v) = Len(old.v)

C3_WriteFrame ==
    [][IsWrite(last'.cmd, last'.args) =>
          IF WriteAddr(last'.cmd, last'.args) \in Addresses(data)
          THEN FrameAt(WriteAddr(last'.cmd, last'.args), data, data')
          ELSE data' = data]_vars

\* {"x": {"y": "5", "z": 9}} right after set 5 at x/y
C3_Witness ==
    /\ last.cmd = "set"
    /\ path = <<"x", "y">>
    /\ data = M(<< <<"x", M(<< <<"y", S("5")>>, <<"z", I(9)>> >>)>> >>)

(* C5.  The end-to-end scenario as the spec states it: from {"x": {"y": 1}} *)
(* at root, cd x, cd y, set 5 leave {"x": {"y": 5}} with y the number 5,    *)
(* and the following cd .., append {"z": 9} leave {"x": {"y": 5, "z": 9}}.  *)
(* This fails with literal mode off, where set stores the string "5".       *)
DocXY5 == M(<< <<"x", M(<< <<"y", I(5)>> >>)>> >>)
DocXY5Z == M(<< <<"x", M(<< <<"y", I(5)>>, <<"z", I(9)>> >>)>> >>)
DocXYs5 == M(<< <<"x", M(<< <<"y", S("5")>> >>)>> >>)
DocXYs5Z == M(<< <<"x", M(<< <<"y", S("5")>>, <<"z", I(9)>> >>)>> >>)

C5_Scenario ==
    /\ scen = 3 => data = DocXY5
    /\ scen = 5 => data = DocXY5Z

(* C5 as amended: with literal mode on the scenario leaves the documents    *)
(* the spec gives; with literal mode off y is the string "5" in both.       *)
C5_ScenarioByMode ==
    /\ scen = 3 => data = (IF literal THEN DocXY5 ELSE DocXYs5)
    /\ scen = 5 => data = (IF literal THEN DocXY5Z ELSE DocXYs5Z)
    /\ scen \in {3, 5} => pc = "awaiting"

C5_Witness ==
    /\ scen = 5
    /\ literal
    /\ last.cmd = "append"
    /\ path = <<"x">>
    /\ data = DocXY5Z

-----------------------------------------------------------------------------
\* the operand append builds from its arguments
NewOperand(args) == smart_cast(S(Join(args)))

IsIntOrStr(d) == d.k \in {"int", "str"}

(* C6.  Scalar append as the spec states it: when the current node and the  *)
(* smart-cast input are both integers or strings, the current node becomes  *)
(* their concatenation as a string (current first) if either is a string,   *)
(* and otherwise their sum as a number.  The code does not do this: it       *)
(* writes the text of the result, f"{cur_data + new_data}", through          *)
(* change_data, so with literal mode off the sum is stored as a string, and  *)
(* with literal mode on a concatenation of digits is stored as a number.     *)
C6_ScalarAppend ==
    [][(/\ last'.cmd = "append"
        /\ IsIntOrStr(CurrentNode)
        /\ IsIntOrStr(NewOperand(last'.args)))
       => get_data_by_path(data', path') =
              (IF CurrentNode.k = "str" \/ NewOperand(last'.args).k = "str"
               THEN S(PyStr(CurrentNode) \o PyStr(NewOperand(last'.args)))
               ELSE I(CurrentNode.v + NewOperand(last'.args).v))]_vars

(* C7.  Append is rejected without any mutation whenever the pair (input,   *)
(* current node) is not two mappings, two sequences, or two scalars that    *)
(* are each an integer or a string.  The code does not reject a boolean:    *)
(* isinstance(True, int) holds, so a boolean operand is summed.             *)
C7_Accepted(new, cur) ==
    \/ IsMap(new) /\ IsMap(cur)
    \/ IsSeq(new) /\ IsSeq(cur)
    \/ IsIntOrStr(new) /\ IsIntOrStr(cur)

C7_RejectedAppend ==
    [][(last'.cmd = "append" /\ ~C7_Accepted(NewOperand(last'.args), CurrentNode))
       => (data' = data /\ path' = path)]_vars

(* C8.  Container append keeps every entry of the current node and adds the *)
(* new ones.  Two mappings: the result is a mapping whose keys are the      *)
(* union, unique, with the new value on every key of the input and the old  *)
(* value on every other key.  Two sequences: the result is the current      *)
(* elements in order followed by the new elements in order.                 *)
C8_Merged(cur, new, res) ==
    /\ IsMap(res)
    /\ Keys(res) = Keys(cur) \cup Keys(new)
    /\ Len(res.v) = Cardinality(Keys(res))
    /\ \A key \in Keys(new) : ValueOf(res, key) = ValueOf(new, key)
    /\ \A key \in Keys(cur) \ Keys(new) : ValueOf(res, key) = ValueOf(cur, key)

C8_ContainerAppend ==
    [][last'.cmd = "append" =>
          /\ (IsMap(CurrentNode) /\ IsMap(NewOperand(last'.args)))
                 => C8_Merged(CurrentNode, NewOperand(last'.args),
                              get_data_by_path(data', path'))
          /\ (IsSeq(CurrentNode) /\ IsSeq(NewOperand(last'.args)))
                 => get_data_by_path(data', path') =
                        L(CurrentNode.v \o NewOperand(last'.args).v)]_vars

\* {"a": 1} plus {"b": 2} gives {"a": 1, "b": 2}
C8_Witness ==
    /\ last = [cmd |-> "append", args |-> <<"{\"b\":", "2}">>]
    /\ path = <<>>
    /\ data = M(<< <<"a", I(1)>>, <<"b", I(2)>> >>)

-----------------------------------------------------------------------------
\* a segment cd rejects at address addr of the current document: .. at the
\* root, or a segment that is no key of the mapping there and no in-bounds
\* index numeral of the sequence there (a scalar has neither)
C9_Rejected(seg, addr) ==
    IF seg = ".." THEN Len(addr) = 0
    ELSE /\ seg # "\\"
         /\ LET node == get_data_by_path(data, addr)
            IN  ~ \/ IsMap(node) /\ seg \in Keys(node)
                  \/ IsSeq(node) /\ seg \in {IntStr(n - 1) : n \in DOMAIN node.v}

\* the working address the cd handler leaves for the given segments
PathAfterCd(segs) == After("cd", segs).path

Without(q, n) == SubSeq(q, 1, n - 1) \o SubSeq(q, n + 1, Len(q))

(* C9.  A rejected cd segment changes nothing: the document is the same     *)
(* after any cd, a cd line all of whose segments are rejected where the     *)
(* session stands leaves the working address where it was (cd .. at root    *)
(* stays at root), and a segment rejected at its point of the walk can be   *)
(* struck from the line without changing where the line ends.               *)
C9_RejectedCdSegment ==
    [][last'.cmd = "cd" =>
          LET segs == Parts(last'.args)
          IN  /\ data' = data
              /\ literal' = literal
              /\ file' = file
              /\ pc' = "awaiting"
              /\ (\A n \in DOMAIN segs : C9_Rejected(segs[n], path))
                     => path' = path
              /\ \A n \in DOMAIN segs :
                     C9_Rejected(segs[n], PathAfterCd(SubSeq(segs, 1, n - 1)))
                         => path' = PathAfterCd(Without(segs, n))]_vars

\* cd x q y from the root of {"x": {"y": 1}}: q is rejected below x
C9_Witness ==
    /\ last = [cmd |-> "cd", args |-> <<"x", "q", "y">>]
    /\ data = DocXY
    /\ path = <<"x", "y">>

\* the walk the claim describes: segment by segment from start, each segment
\* validated against the node the segments before it reached
C10_Walk(start, segs) ==
    LET W[n \in 0..Len(segs)] ==
            IF n = 0 THEN start
            ELSE IF segs[n] = "." THEN W[n - 1]
            ELSE IF segs[n] = ".." THEN Parent(W[n - 1])
            ELSE IF segs[n] = "\\" THEN <<>>
            ELSE IF C9_Rejected(segs[n], W[n - 1]) THEN W[n - 1]
            ELSE Append(W[n - 1], segs[n])
    IN  W[Len(segs)]

(* C10.  A cd of several segments applies them left to right, each one      *)
(* validated against the node the segments before it reached: afterwards    *)
(* the working address is the start address extended by the accepted        *)
(* segments in order, with .. removing the last segment, and the document   *)
(* is unchanged.                                                            *)
C10_CdWalk ==
    [][last'.cmd = "cd" =>
          /\ data' = data
          /\ path' = C10_Walk(path, Parts(last'.args))]_vars

\* cd x/y from the root of {"x": {"y": 1}}: y is a key of x, not of the root
C10_Witness ==
    /\ last = [cmd |-> "cd", args |-> <<"x/y">>]
    /\ data = DocXY
    /\ path = <<"x", "y">>

-----------------------------------------------------------------------------
(* SpecDel: a session of cd, del-val and del-key over a mapping, a sequence *)
(* and a document that nests both.                                          *)

\* {"a": 1, "b": 2}
DocAB == M(<< <<"a", I(1)>>, <<"b", I(2)>> >>)
\* {"k": {"a": 1, "b": 2, "t": true}, "l": [1, 2]}
DocNest ==
    M(<< <<"k", M(<< <<"a", I(1)>>, <<"b", I(2)>>, <<"t", B(TRUE)>> >>)>>,
         <<"l", L(<< I(1), I(2) >>)>> >>)

DelCdArgs == { <<"k">>, <<"l">>, <<"..">> }
DelDelValArgs == { <<"1">>, <<"2">>, <<"7">> }
DelDelKeyArgs == { <<"a">>, <<"q">>, <<"q", "b">>, <<"0">>, <<"5">> }

InitDel == Start({DocAB, Doc12, DocNest})

NextDel ==
    \/ Cd(DelCdArgs)
    \/ DelVal(DelDelValArgs)
    \/ DelKey(DelDelKeyArgs)

SpecDel == InitDel /\ [][NextDel]_vars

\* the steps that leave everything of the session but the document alone
OnlyDataChanges ==
    /\ pc' = "awaiting"
    /\ path' = path
    /\ literal' = literal
    /\ filename' = filename
    /\ file' = file

\* the value del-val compares with: the typed text, smart-cast in literal mode
C11_Given(arg) == IF literal THEN smart_cast(S(arg)) ELSE S(arg)

\* equality of scalars as Python's == decides it: True == 1 and False == 0
C11_Equal(a, b) ==
    \/ a = b
    \/ /\ a.k \in {"int", "bool"}
       /\ b.k \in {"int", "bool"}
       /\ NumVal(a) = NumVal(b)

(* C11 as stated.  del-val v on a mapping removes exactly the entries whose *)
(* value is v and keeps every other entry: {"a":1,"b":2} with del-val 1      *)
(* becomes {"b":2}.  This fails with literal mode off, where the typed 1 is  *)
(* the string "1" and no entry is removed.                                   *)
C11_DelValMapping ==
    [][(/\ last'.cmd = "del-val"
        /\ Len(last'.args) = 1
        /\ IsMap(CurrentNode))
       => get_data_by_path(data', path') =
              M(SelectSeq(CurrentNode.v,
                          LAMBDA e : e[2] # smart_cast(S(last'.args[1]))))]_vars

(* C11 amended.  del-val v on a mapping removes exactly the entries whose   *)
(* value equals the given value and keeps every other entry, in order, and  *)
(* nothing else of the session changes; the given value is smart_cast(v)    *)
(* with literal mode on and the string v with literal mode off, and equal   *)
(* is Python's ==, under which true equals 1.                               *)
C11_DelValMappingByMode ==
    [][(/\ last'.cmd = "del-val"
        /\ Len(last'.args) = 1
        /\ IsMap(CurrentNode))
       => /\ OnlyDataChanges
          /\ data' = change_data_by_path(data, path,
                         M(SelectSeq(CurrentNode.v,
                               LAMBDA e : ~C11_Equal(e[2], C11_Given(last'.args[1])))))]_vars

\* {"a": 1, "b": 2} after del-val 1 in literal mode
C11_Witness ==
    /\ last = [cmd |-> "del-val", args |-> <<"1">>]
    /\ literal
    /\ path = <<>>
    /\ data = M(<< <<"b", I(2)>> >>)

(* C12.  del-val v on a sequence that holds v leaves the current node the   *)
(* previous sequence without the element equal to v, the others in order,   *)
(* and changes nothing outside the current node.  The code breaks this:     *)
(* list.remove returns None, and that None is written as the current node.  *)
C12_DelValSequence ==
    [][(/\ last'.cmd = "del-val"
        /\ Len(last'.args) = 1
        /\ IsSeq(CurrentNode)
        /\ \E n \in DOMAIN CurrentNode.v :
               C11_Equal(CurrentNode.v[n], C11_Given(last'.args[1])))
       => /\ IsSeq(get_data_by_path(data', path'))
          /\ data' = change_data_by_path(data, path,
                         L(RemoveFirst(CurrentNode.v, C11_Given(last'.args[1]))))]_vars

\* no argument of the del-key line names an entry of the current node
C13_AllAbsent(args) ==
    \A n \in DOMAIN args :
        /\ IsMap(CurrentNode) => ~HasKey(CurrentNode, args[n])
        /\ IsSeq(CurrentNode) =>
               args[n] \notin {IntStr(m - 1) : m \in DOMAIN CurrentNode.v}

(* C13.  del-key with keys that are not in the current mapping, or indexes  *)
(* that are not in the current sequence, reports and leaves the session as  *)
(* it was, awaiting the next line.  The code breaks this on a sequence:     *)
(* list.pop is called with the string, which raises TypeError, and only     *)
(* KeyError and IndexError are caught.                                      *)
C13_DelKeyAbsent ==
    [][(/\ last'.cmd = "del-key"
        /\ CurrentNode.k \in {"map", "seq"}
        /\ C13_AllAbsent(last'.args))
       => (OnlyDataChanges /\ data' = data)]_vars

\* the entries of a container without its n-th
C14_Without(d, n) ==
    IF IsMap(d) THEN M(Without(d.v, n)) ELSE L(Without(d.v, n))

\* the position of the entry a key or an index numeral names
C14_Position(d, k) ==
    IF IsMap(d) THEN IndexOfKey(d, k)
    ELSE CHOOSE m \in DOMAIN d.v : IntStr(m - 1) = k

(* C14.  del-key k with k a key of the current mapping or an in-bounds      *)
(* index numeral of the current sequence removes that one entry: the others *)
(* keep value and order, the node keeps its kind and the working address    *)
(* stays.  The code breaks this on a sequence: list.pop("0") raises         *)
(* TypeError, nothing is removed and the loop of run ends.                  *)
C14_DelKeyPresent ==
    [][(/\ last'.cmd = "del-key"
        /\ Len(last'.args) = 1
        /\ CurrentNode.k \in {"map", "seq"}
        /\ ~C13_AllAbsent(last'.args))
       => /\ OnlyDataChanges
          /\ data' = change_data_by_path(data, path,
                         C14_Without(CurrentNode,
                                     C14_Position(CurrentNode, last'.args[1])))]_vars

-----------------------------------------------------------------------------
(* C15.  What set stores depends on literal mode only: with literal mode on *)
(* the node at the working address becomes smart_cast of the typed text,    *)
(* with literal mode off the text itself; the document that results from    *)
(* the write is the session's document and nothing else of the session      *)
(* changes.  A write that requests force_type stores the smart-cast value   *)
(* in either mode.                                                          *)
C15_SetByLiteralMode ==
    [][last'.cmd = "set" =>
          /\ OnlyDataChanges
          /\ data' = change_data_by_path(data, path,
                         IF literal THEN smart_cast(S(Join(last'.args)))
                         ELSE S(Join(last'.args)))
          /\ change_data(Session, S(Join(last'.args)), "current", TRUE).data =
                 change_data_by_path(data, path, smart_cast(S(Join(last'.args))))]_vars

\* set 5 with literal mode off stores the string "5"
C15_Witness ==
    /\ last = [cmd |-> "set", args |-> <<"5">>]
    /\ ~literal
    /\ path = <<"x", "y">>
    /\ data = DocXYs5

\* the address the path argument of cast and uncast names
C16_Target(arg) == IF arg = "." THEN path ELSE Append(path, arg)

(* C16.  uncast <path> on a valid path leaves the node there the string     *)
(* that is the text of its previous value, whatever the literal mode, and   *)
(* cast <path> leaves it smart_cast of its previous value.  This fails for  *)
(* uncast: the handler writes str(data) with force_type requested, and a    *)
(* write with force_type smart-casts what it is given, so the text of 1 is  *)
(* stored as the number 1 again.                                            *)
C16_CastUncast ==
    [][(/\ last'.cmd \in {"cast", "uncast"}
        /\ Len(last'.args) = 1
        /\ Valid(data, C16_Target(last'.args[1])))
       => get_data_by_path(data', C16_Target(last'.args[1])) =
              (IF last'.cmd = "uncast"
               THEN S(PyStr(get_data_by_path(data, C16_Target(last'.args[1]))))
               ELSE smart_cast(get_data_by_path(data, C16_Target(last'.args[1]))))]_vars

-----------------------------------------------------------------------------
(* SpecFlag: a session of flag, set and cd over a mapping and over a        *)
(* document that is a bare boolean.                                         *)

\* true
DocTrue == B(TRUE)

FlagCdArgs == { <<"x">>, <<"..">> }
FlagSetArgs == { <<"5">>, <<"false">> }
FlagFlagArgs ==
    { <<"literal", "on">>, <<"literal", "off">>, <<"literal", "ON">>,
      <<"literal", "maybe">>, <<"literal", "on", "now">>,
      <<"path", "on">>, <<"filename", "off">>, <<"data", "on">>,
      <<"data", "off">>, <<"foo", "on">> }

InitFlag == Start({DocXY, DocTrue})

NextFlag ==
    \/ Cd(FlagCdArgs)
    \/ Set(FlagSetArgs)
    \/ Flag(FlagFlagArgs)

SpecFlag == InitFlag /\ [][NextFlag]_vars

\* a flag line of a name and a value that reads on or off
C17_WellFormed(args) == Len(args) = 2 /\ args[2] \in OnTexts \cup OffTexts

NothingChanges ==
    /\ OnlyDataChanges
    /\ data' = data

(* C17 as stated.  flag literal on|off sets the literal flag to that value  *)
(* and nothing else; every other name, data among them, is rejected and     *)
(* leaves the whole session unchanged.  This fails when the document is a   *)
(* bare boolean: the entry data of the public state is then boolean-valued  *)
(* and flag data off replaces the document.                                 *)
C17_FlagLiteralOnly ==
    [][(last'.cmd = "flag" /\ Len(last'.args) >= 2) =>
          IF C17_WellFormed(last'.args) /\ last'.args[1] = "literal"
          THEN /\ literal' = (last'.args[2] \in OnTexts)
               /\ data' = data /\ path' = path /\ file' = file
               /\ filename' = filename /\ pc' = "awaiting"
          ELSE NothingChanges]_vars

(* C17 amended.  flag changes only a boolean-valued entry of the public     *)
(* state: flag literal on|off sets the literal flag and nothing else; flag  *)
(* data on|off replaces the document by that boolean when the document is   *)
(* itself a boolean, and is rejected otherwise; path, filename, an unknown  *)
(* name or a value that is not on or off leave the whole session unchanged. *)
C17_FlagBooleanOnly ==
    [][(last'.cmd = "flag" /\ Len(last'.args) >= 2) =>
          IF C17_WellFormed(last'.args) /\ last'.args[1] = "literal"
          THEN /\ literal' = (last'.args[2] \in OnTexts)
               /\ data' = data /\ path' = path /\ file' = file
               /\ filename' = filename /\ pc' = "awaiting"
          ELSE IF /\ C17_WellFormed(last'.args)
                  /\ last'.args[1] = "data"
                  /\ data.k = "bool"
          THEN /\ OnlyDataChanges
               /\ data' = B(last'.args[2] \in OnTexts)
          ELSE NothingChanges]_vars

\* flag literal on has turned literal mode on over an unchanged document
C17_Witness ==
    /\ last = [cmd |-> "flag", args |-> <<"literal", "ON">>]
    /\ literal
    /\ data = M(<< <<"x", S("5")>> >>)
    /\ path = <<"x">>

-----------------------------------------------------------------------------
(* main(): the command line is parsed, the file is loaded (or made), and    *)
(* the process either edits the file once or enters the loop of run.        *)

\* the source file does not exist
Absent == [k |-> "absent"]

\* an option of the command line is given
HasOpt(argv, names) == \E n \in DOMAIN argv : argv[n] \in names

\* the value that follows an option, or its default
OptValue(argv, names, default) ==
    IF \E n \in 1..(Len(argv) - 1) : argv[n] \in names
    THEN argv[(CHOOSE n \in 1..(Len(argv) - 1) : argv[n] \in names) + 1]
    ELSE default

\* the one-shot branch that smart-casts the value whether or not -l is given
one_shot_cast(s, loaded, target, new_value, lit) ==
    LET new_content == change_data_by_path(loaded, target, smart_cast(S(new_value)))
    IN  IF new_content = NavigationError
        THEN [s EXCEPT !.data = loaded, !.pc = "crashed"]
        ELSE [s EXCEPT !.data = loaded, !.file = new_content, !.pc = "done"]

\* the one-shot branch of main: one replace, then save_file
one_shot(s, loaded, target, new_value, lit) ==
    LET value == IF lit THEN smart_cast(S(new_value)) ELSE S(new_value)
        new_content == change_data_by_path(loaded, target, value)
    IN  IF new_content = NavigationError
        THEN [s EXCEPT !.data = loaded, !.pc = "crashed"]
        ELSE [s EXCEPT !.data = loaded, !.file = new_content, !.pc = "done"]

\* main()
main(s, argv) ==
    LET lit    == HasOpt(argv, {"-l", "--literal"})
        make   == HasOpt(argv, {"-mk", "--make"})
        target == Parts(<<OptValue(argv, {"-p", "--path"}, "")>>)
    IN  IF s.file = Absent /\ ~make THEN [s EXCEPT !.pc = "exited"]
        ELSE LET made   == [s EXCEPT !.file = IF s.file = Absent THEN S("") ELSE s.file]
                 loaded == made.file
             IN  IF ~HasOpt(argv, {"-nv", "--new_value"})
                 THEN Show([made EXCEPT !.data = loaded, !.path = target,
                                        !.literal = lit, !.pc = "awaiting"])
                 ELSE one_shot(made, loaded, target,
                               OptValue(argv, {"-nv", "--new_value"}, ""), lit)

\* the process is started with a command line
Main(argvs) ==
    \E argv \in argvs :
        /\ pc = "main"
        /\ \E r \in {main(Session, argv)} :
               /\ data' = r.data
               /\ path' = r.path
               /\ literal' = r.literal
               /\ filename' = r.filename
               /\ file' = r.file
               /\ pc' = r.pc
        /\ last' = [cmd |-> "main", args |-> argv]
        /\ scen' = 0

(* SpecMain: the process from its start, one-shot or interactive.           *)

MainArgv ==
    { <<"lipsum.json">>,
      <<"lipsum.json", "-l">>,
      <<"lipsum.json", "-mk">>,
      <<"lipsum.json", "-p", "x">>,
      <<"lipsum.json", "-nv", "5">>,
      <<"lipsum.json", "-nv", "5", "-l">>,
      <<"lipsum.json", "-nv", "5", "-p", "x/y">>,
      <<"lipsum.json", "-nv", "5", "-p", "x/y", "-l">>,
      <<"lipsum.json", "-nv", "true", "-p", "x", "-l", "-mk">>,
      <<"lipsum.json", "-nv", "5", "-p", "q">> }
MainCdArgs == { <<"x">>, <<"y">>, <<"..">> }
MainSetArgs == { <<"5">>, <<"7">> }

InitMain ==
    /\ file \in {DocXY, Absent}
    /\ data = None
    /\ path = <<>>
    /\ literal = FALSE
    /\ filename = "lipsum.json"
    /\ pc = "main"
    /\ last = [cmd |-> "(start)", args |-> <<>>]
    /\ scen = 0

NextMain ==
    \/ Main(MainArgv)
    \/ Cd(MainCdArgs)
    \/ Set(MainSetArgs)
    \/ Save

SpecMain == InitMain /\ [][NextMain]_vars

\* the value the command line supplies, as main hands it to the replace
C18_Value(argv) ==
    IF HasOpt(argv, {"-l", "--literal"})
    THEN smart_cast(S(OptValue(argv, {"-nv", "--new_value"}, "")))
    ELSE S(OptValue(argv, {"-nv", "--new_value"}, ""))

\* the target address the command line supplies, the root by default
C18_Target(argv) == Parts(<<OptValue(argv, {"-p", "--path"}, "")>>)

-----------------------------------------------------------------------------
(* SpecSave: a session that edits, saves and restarts.                      *)

SaveCdArgs == { <<"x">>, <<"..">> }
SaveSetArgs == { <<"5">> }
SaveAppendArgs == { <<"{\"z\":", "9}">> }
SaveDelKeyArgs == { <<"y">>, <<"z">> }

InitSave == Start({DocXY})

NextSave ==
    \/ Cd(SaveCdArgs)
    \/ Set(SaveSetArgs)
    \/ AppendCmd(SaveAppendArgs)
    \/ DelKey(SaveDelKeyArgs)
    \/ Save
    \/ Restart

SpecSave == InitSave /\ [][NextSave]_vars

(* C19.  The source file changes only when save runs, and then holds the    *)
(* document of that moment; restart replaces the whole document by the      *)
(* content of the file, so by what the last save wrote or, without a save,  *)
(* by what was loaded at start-up, whatever was edited since; restart right *)
(* after save leaves the document as it is.                                 *)
C19_RestartReloadsSaved ==
    [][/\ file' # file => (last'.cmd = "save" /\ file' = data)
       /\ last'.cmd = "save" => (file' = data /\ data' = data)
       /\ last'.cmd = "restart" => (data' = file /\ file' = file)
       /\ (last.cmd = "save" /\ last'.cmd = "restart") => data' = data]_vars

\* a saved append survives restart and a later unsaved set does not
C19_Witness ==
    /\ last = [cmd |-> "restart", args |-> <<>>]
    /\ pc = "awaiting"
    /\ path = <<"x">>
    /\ file = M(<< <<"x", M(<< <<"y", I(1)>>, <<"z", I(9)>> >>)>> >>)
    /\ data = file

-----------------------------------------------------------------------------
(* SpecTemp: a session of +l lines, with cd, set and flag between them.     *)

TempCdArgs == { <<"x">>, <<"y">>, <<"..">> }
TempSetArgs == { <<"7">> }
TempFlagArgs == { <<"literal", "on">>, <<"literal", "off">> }
TempTempLiteralArgs ==
    { <<>>, <<"foo">>, <<"set", "5">>, <<"cd", "q">>, <<"exit">>, <<"flag">>,
      <<"flag", "literal", "off">>, <<"flag", "literal", "on">>,
      <<"+l">>, <<"+l", "set", "5">>, <<"+l", "flag", "literal", "off">> }

InitTemp == Start({DocXY})

NextTemp ==
    \/ Cd(TempCdArgs)
    \/ Set(TempSetArgs)
    \/ Flag(TempFlagArgs)
    \/ TempLiteral(TempTempLiteralArgs)

SpecTemp == InitTemp /\ [][NextTemp]_vars

\* the session the wrapped command leaves when it is run with literal mode on
C20_Wrapped(args) == Call(args[1], [Session EXCEPT !.literal = TRUE], Tail(args))

(* C20.  +l <command> [args] runs the command as it runs with literal mode  *)
(* on, whatever the mode of the session (set 5 under +l stores the number   *)
(* 5), and afterwards the literal flag is what it was before the line: for  *)
(* flag literal on|off, for a nested +l, and for a command that ends in an  *)
(* error or in exit.  +l with no command or an unknown one changes nothing. *)
C20_TemporaryLiteral ==
    [][last'.cmd = "+l" =>
          /\ literal' = literal
          /\ IF Len(last'.args) > 0 /\ last'.args[1] \in Commands
             THEN /\ data' = C20_Wrapped(last'.args).data
                  /\ path' = C20_Wrapped(last'.args).path
                  /\ file' = C20_Wrapped(last'.args).file
                  /\ pc' = C20_Wrapped(last'.args).pc
             ELSE NothingChanges
          /\ last'.args \in {<<"set", "5">>, <<"+l", "set", "5">>}
                 => get_data_by_path(data', path') = I(5)
          /\ last'.args \in {<<"flag", "literal", "off">>,
                             <<"+l", "flag", "literal", "off">>}
                 => (data' = data /\ path' = path /\ pc' = "awaiting")]_vars

\* +l set 5 has stored the number 5 in a session whose literal mode is off
C20_Witness ==
    /\ last = [cmd |-> "+l", args |-> <<"set", "5">>]
    /\ ~literal
    /\ path = <<"x", "y">>
    /\ data = DocXY5

=============================================================================
